---- MODULE Spec2Model ----
(***************************************************************************)
(* Model of the dispatch core of hugojosefson/application:                 *)
(*   - Service.authorize                      (src/src/service.ts)         *)
(*   - BrowserRequest title/description/meta/getMeta/render                *)
(*                                            (src/unnamed/part_000)       *)
(* Strings are TLA+ strings; "" is the empty (falsy) string and also       *)
(* stands for an absent property of a meta tag.                            *)
(***************************************************************************)
EXTENDS Naturals, Integers, Sequences, FiniteSets, TLC

VARIABLES
  app,            \* the Application's defaults: title, description, meta
  _title,         \* BrowserRequest._title
  _description,   \* BrowserRequest._description
  _meta,          \* BrowserRequest._meta, an object with insertion-ordered keys
  ret,            \* what the last title/description/meta/getMeta call returned
  supplied,       \* history: the argument last passed to title / description
  lastTag,        \* history: per key, the tag of the last accepted meta call
  app0,           \* history: the Application's defaults at construction
  currentVPath,   \* Browser: the current-view marker
  errorPages,     \* Browser: the errors handed to renderUnhandledErrorPage
  head,           \* document.head, a sequence of elements
  mountNode,      \* document.body.children[0]: the tree mounted there
  calls,          \* the render invocations and where each stands
  auths,          \* the authorize invocations and where each stands
  invocations,    \* history: the calls made to authorize callbacks
  rpcs,           \* the call(method, ...args) invocations and their promises
  remote          \* Browser: the calls received by Browser.call

requestVars == <<_title, _description, _meta, ret, supplied, lastTag>>
renderVars == <<currentVPath, errorPages, head, mountNode, calls>>
authVars == <<auths, invocations>>
rpcVars == <<rpcs, remote>>
vars == <<app, app0, requestVars, renderVars, authVars, rpcVars>>

----------------------------------------------------------------------------
(* Bounds and input domains                                                *)

MaxCalls == 2
MaxAuths == 2
MaxRpcs == 2
MaxRepeat == 3

Calls == 1..MaxCalls
Auths == 1..MaxAuths
Rpcs == 1..MaxRpcs

TitleValues == {"", "X", "Y"}
DescriptionValues == {"", "D", "E"}
Contents == {"1", "2"}
Names == {"", "a"}
HttpEquivs == {"", "b"}

\* IMetaTag: name and httpEquiv are optional, "" stands for absent
MetaTags == [name : Names, httpEquiv : HttpEquivs, content : Contents]

Tag(n, h, c) == [name |-> n, httpEquiv |-> h, content |-> c]

\* The Application metadata objects the model starts from
AppMetas ==
  { <<>>,
    << [key |-> "a", tag |-> Tag("a", "", "0")] >>,
    << [key |-> "description", tag |-> Tag("description", "", "0")],
       [key |-> "b", tag |-> Tag("", "b", "0")] >> }

AppConfigs == [title : {"App"}, description : {"AppDesc"}, meta : AppMetas]

----------------------------------------------------------------------------
(* JavaScript objects with string keys: a sequence of [key, tag] entries   *)
(* with distinct keys, in insertion order.                                 *)

Keys(obj) == { obj[i].key : i \in 1..Len(obj) }

Has(obj, k) == k \in Keys(obj)

Get(obj, k) == (CHOOSE i \in 1..Len(obj) : obj[i].key = k)

Lookup(obj, k) == obj[Get(obj, k)].tag

\* obj[k] = v : overwrite in place, or add the key at the end
Put(obj, k, v) ==
  IF Has(obj, k)
    THEN [obj EXCEPT ![Get(obj, k)] = [key |-> k, tag |-> v]]
    ELSE Append(obj, [key |-> k, tag |-> v])

\* Object.assign(target, source): copies source's entries in order
RECURSIVE Assign(_, _)
Assign(target, source) ==
  IF source = <<>> THEN target
  ELSE Assign(Put(target, Head(source).key, Head(source).tag), Tail(source))

\* Object.values(obj)
Values(obj) == [i \in 1..Len(obj) |-> obj[i].tag]

\* JavaScript truthiness of a string
Truthy(s) == s # ""

----------------------------------------------------------------------------
(* BrowserRequest: title, description, meta, getMeta                       *)

\* An optional argument is a sequence of length arguments.length (0 or 1)
NoArg == <<>>

\* title(): the override when non-empty, else the Application's title
TitleValue(t, a) == IF Truthy(t) THEN t ELSE a.title

DescriptionValue(d, a) == IF Truthy(d) THEN d ELSE a.description

\* mutant: the override is written only for a truthy value
TitleIgnoresEmpty(arg) ==
  LET t == IF Len(arg) = 1 /\ Truthy(arg[1]) THEN arg[1] ELSE _title IN
  /\ _title' = t
  /\ ret' = [op |-> "title", value |-> TitleValue(t, app)]
  /\ supplied' = IF Len(arg) = 1 THEN [supplied EXCEPT !.title = arg] ELSE supplied
  /\ UNCHANGED <<app, app0, rpcVars, _description, _meta, lastTag, renderVars, authVars>>

\* title(value?)
Title(arg) ==
  LET t == IF Len(arg) = 1 THEN arg[1] ELSE _title IN
  /\ _title' = t
  /\ ret' = [op |-> "title", value |-> TitleValue(t, app)]
  /\ supplied' = IF Len(arg) = 1 THEN [supplied EXCEPT !.title = arg] ELSE supplied
  /\ UNCHANGED <<app, app0, rpcVars, _description, _meta, lastTag, renderVars, authVars>>

\* description(value?)
Description(arg) ==
  LET d == IF Len(arg) = 1 THEN arg[1] ELSE _description IN
  /\ _description' = d
  /\ ret' = [op |-> "description", value |-> DescriptionValue(d, app)]
  /\ supplied' = IF Len(arg) = 1 THEN [supplied EXCEPT !.description = arg] ELSE supplied
  /\ UNCHANGED <<app, app0, rpcVars, _title, _meta, lastTag, renderVars, authVars>>

\* history only: the identifier a tag is registered under
Identifier(value) == IF value.name # "" THEN value.name ELSE value.httpEquiv

\* the branch meta(value) takes: the key it stores under, or "" when it throws
MetaKey(value) ==
  IF Truthy(value.name) THEN value.name
  ELSE IF Truthy(value.httpEquiv) THEN value.httpEquiv
  ELSE ""

\* meta(value)
Meta(value) ==
  /\ IF MetaKey(value) # ""
       THEN /\ _meta' = Put(_meta, MetaKey(value), value)
            /\ ret' = [op |-> "meta", value |-> "this", tag |-> value]
            /\ lastTag' = [lastTag EXCEPT ![Identifier(value)] = <<value>>]
       ELSE /\ _meta' = _meta
            /\ ret' = [op |-> "meta", value |-> "throws", tag |-> value]
            /\ lastTag' = lastTag
  /\ UNCHANGED <<app, app0, rpcVars, _title, _description, supplied, renderVars, authVars>>

\* mutant: the Application's entries override the request's
GetMetaValueAppWins(appMeta, reqMeta) == Assign(Assign(<<>>, reqMeta), appMeta)

\* getMeta()'s result
GetMetaValue(appMeta, reqMeta) == Assign(Assign(<<>>, appMeta), reqMeta)

\* getMeta()
GetMeta ==
  /\ ret' = [op |-> "getMeta", value |-> GetMetaValue(app.meta, _meta)]
  /\ UNCHANGED <<app, app0, rpcVars, _title, _description, _meta, supplied, lastTag,
                 renderVars, authVars>>

----------------------------------------------------------------------------
(* The host document and the navigation controller (Browser)               *)

VPaths == {"A", "B"}
Attrs == {"p", "q"}

\* getCurrentVPath() before any view was rendered
Undefined == "undefined"

\* what document.body.children[0] holds when no tree is mounted
Empty == [vpath |-> "", attrs |-> ""]

Element(tag, attr, key, content, keep) ==
  [tag |-> tag, attr |-> attr, key |-> key, content |-> content, keep |-> keep]

\* the head the server sent
InitHeads ==
  { << Element("meta", "charset", "utf-8", "", TRUE),
       Element("title", "", "", "Server", FALSE),
       Element("meta", "name", "description", "old", FALSE),
       Element("link", "", "", "", FALSE) >>,
    << Element("title", "", "", "Server", FALSE) >> }

IsTitle(el) == el.tag = "title"
IsRemovableMeta(el) == el.tag = "meta" /\ ~el.keep
IsLinkOrScript(el) == el.tag \in {"link", "script"}

\* setTitle(): drop every title element, prepend a new one
SetTitleHead(h, title) ==
  LET NotTitle(el) == ~IsTitle(el) IN
  <<Element("title", "", "", title, FALSE)>> \o SelectSeq(h, NotTitle)

\* setMeta(), first statement: drop the meta elements without data-keep
RemoveMeta(h) ==
  LET Kept(el) == ~IsRemovableMeta(el) IN SelectSeq(h, Kept)

\* setMeta(): the element created for one tag
MetaElement(meta) ==
  Element("meta",
          IF Truthy(meta.httpEquiv) THEN "http-equiv" ELSE "name",
          IF Truthy(meta.httpEquiv) THEN meta.httpEquiv ELSE meta.name,
          meta.content, FALSE)

\* setMeta(): the fragment, the default description tag first
Fragment(description, metaObj) ==
  LET tags == <<Tag("description", "", description)>> \o Values(metaObj) IN
  [i \in 1..Len(tags) |-> MetaElement(tags[i])]

\* insertBefore(fragment, first link or script), or appendChild(fragment)
InsertFragment(h, fragment) ==
  LET at == { i \in 1..Len(h) : IsLinkOrScript(h[i]) } IN
  IF at # {}
    THEN LET first == CHOOSE i \in at : \A j \in at : i <= j IN
         SubSeq(h, 1, first - 1) \o fragment \o SubSeq(h, first, Len(h))
    ELSE h \o fragment

SetMetaHead(h, description, metaObj) ==
  InsertFragment(RemoveMeta(h), Fragment(description, metaObj))

----------------------------------------------------------------------------
(* BrowserRequest.render                                                   *)

IdleCall ==
  [pc |-> "idle", vpath |-> "", attrs |-> "", prevVPath |-> "", view |-> "",
   err |-> "", events |-> <<>>, before |-> "", turn |-> 0]

\* events: history of what the call did; before: history, the marker when
\* render was called; turn: history, the rank of the call among the calls
\* whose callback the loader has run (0: not run)

\* the statements of the load callback
CallbackPcs ==
  {"setTitle", "setMeta", "getCurrentVPath", "setCurrentVPath", "require",
   "checkView", "unmount", "mount"}

InCallback(c) == calls[c].pc \in CallbackPcs

\* the calls are numbered in the order they are made
NextCall(c) ==
  /\ calls[c].pc = "idle"
  /\ \A d \in DOMAIN calls : d < c => calls[d].pc # "idle"

\* render(vpath, attrs) is called when no other render is in progress
Sequential(c) ==
  \A d \in DOMAIN calls : d # c => calls[d].pc \in {"idle", "resolved"}

Step(c, pc, event) ==
  [calls EXCEPT ![c].pc = pc, ![c].events = Append(@, event)]

Throw(c, err) ==
  [calls EXCEPT ![c].pc = "rejected", ![c].err = err]

\* render(vpath, attrs) up to the await of loader.load(vpath, callback)
Render(c, vpath, attrs) ==
  /\ NextCall(c)
  /\ calls' = [calls EXCEPT ![c] = [IdleCall EXCEPT !.pc = "loading",
                                     !.vpath = vpath, !.attrs = attrs,
                                     !.before = currentVPath]]
  /\ UNCHANGED <<app, app0, rpcVars, requestVars, authVars, currentVPath, errorPages,
                 head, mountNode>>

\* the loader fails without running the callback
LoadFails(c) ==
  /\ calls[c].pc = "loading"
  /\ calls' = Throw(c, "LoadError")
  /\ UNCHANGED <<app, app0, rpcVars, requestVars, authVars, currentVPath, errorPages,
                 head, mountNode>>

\* mutant: a call superseded by a later render is dropped, its callback
\* never runs
LoadCallbackUnlessSuperseded(c) ==
  /\ calls[c].pc = "loading"
  /\ \A d \in DOMAIN calls : ~InCallback(d)
  /\ calls' = IF \E d \in DOMAIN calls : d > c /\ calls[d].pc # "idle"
                THEN [calls EXCEPT ![c].pc = "returned"]
                ELSE [calls EXCEPT ![c].pc = "setTitle",
                        ![c].turn = 1 + Cardinality({d \in DOMAIN calls :
                                                      calls[d].turn > 0})]
  /\ UNCHANGED <<app, app0, rpcVars, requestVars, authVars, currentVPath, errorPages,
                 head, mountNode>>

\* the loader runs the callback; one callback runs at a time
LoadCallback(c) ==
  /\ calls[c].pc = "loading"
  /\ \A d \in DOMAIN calls : ~InCallback(d)
  /\ calls' = [calls EXCEPT ![c].pc = "setTitle",
                            ![c].turn = 1 + Cardinality({d \in DOMAIN calls :
                                                          calls[d].turn > 0})]
  /\ UNCHANGED <<app, app0, rpcVars, requestVars, authVars, currentVPath, errorPages,
                 head, mountNode>>

\* this.setTitle()
SetTitle(c) ==
  /\ calls[c].pc = "setTitle"
  /\ head' = SetTitleHead(head, TitleValue(_title, app))
  /\ calls' = Step(c, "setMeta", "setTitle")
  /\ UNCHANGED <<app, app0, rpcVars, requestVars, authVars, currentVPath, errorPages,
                 mountNode>>

\* this.setMeta()
SetMeta(c) ==
  /\ calls[c].pc = "setMeta"
  /\ head' = SetMetaHead(head, DescriptionValue(_description, app),
                         GetMetaValue(app.meta, _meta))
  /\ calls' = Step(c, "getCurrentVPath", "setMeta")
  /\ UNCHANGED <<app, app0, rpcVars, requestVars, authVars, currentVPath, errorPages,
                 mountNode>>

\* a DOM operation of setTitle/setMeta throws before it changed the head
SyncThrows(c) ==
  /\ calls[c].pc \in {"setTitle", "setMeta"}
  /\ calls' = Throw(c, "SyncError")
  /\ UNCHANGED <<app, app0, rpcVars, requestVars, authVars, currentVPath, errorPages,
                 head, mountNode>>

\* let prevVPath = this._browser.getCurrentVPath()
GetCurrentVPath(c) ==
  /\ calls[c].pc = "getCurrentVPath"
  /\ calls' = [calls EXCEPT ![c].pc = "setCurrentVPath",
                            ![c].prevVPath = currentVPath]
  /\ UNCHANGED <<app, app0, rpcVars, requestVars, authVars, currentVPath, errorPages,
                 head, mountNode>>

\* this._browser.setCurrentVPath(vpath)
SetCurrentVPath(c) ==
  /\ calls[c].pc = "setCurrentVPath"
  /\ currentVPath' = calls[c].vpath
  /\ calls' = Step(c, "require", "setCurrentVPath")
  /\ UNCHANGED <<app, app0, rpcVars, requestVars, authVars, errorPages, head, mountNode>>

\* let view = require(vpath).default : the module's default export, if any
Require(c, hasDefault) ==
  /\ calls[c].pc = "require"
  /\ calls' = [Step(c, "checkView", "require") EXCEPT
                 ![c].view = IF hasDefault THEN calls[c].vpath ELSE ""]
  /\ UNCHANGED <<app, app0, rpcVars, requestVars, authVars, currentVPath, errorPages,
                 head, mountNode>>

\* require(vpath) throws
RequireThrows(c) ==
  /\ calls[c].pc = "require"
  /\ calls' = Throw(c, "RequireError")
  /\ UNCHANGED <<app, app0, rpcVars, requestVars, authVars, currentVPath, errorPages,
                 head, mountNode>>

\* mutant: the previous tree is unmounted before the view is checked
CheckViewAfterUnmount(c) ==
  /\ calls[c].pc = "checkView"
  /\ mountNode' = IF calls[c].vpath # calls[c].prevVPath THEN Empty ELSE mountNode
  /\ calls' = IF Truthy(calls[c].view)
                THEN [calls EXCEPT ![c].pc = "mount"]
                ELSE Throw(c, "NoDefaultError")
  /\ UNCHANGED <<app, app0, rpcVars, requestVars, authVars, currentVPath,
                 errorPages, head>>

\* if (!view) throw new Error(...)
CheckView(c) ==
  /\ calls[c].pc = "checkView"
  /\ calls' = IF Truthy(calls[c].view)
                THEN [calls EXCEPT ![c].pc = "unmount"]
                ELSE Throw(c, "NoDefaultError")
  /\ UNCHANGED <<app, app0, rpcVars, requestVars, authVars, currentVPath, errorPages,
                 head, mountNode>>

\* mutant: the unmount is made when the vpath did not change
UnmountWhenSame(c) ==
  /\ calls[c].pc = "unmount"
  /\ IF calls[c].vpath = calls[c].prevVPath
       THEN /\ mountNode' = Empty
            /\ calls' = Step(c, "mount", "unmount")
       ELSE /\ mountNode' = mountNode
            /\ calls' = [calls EXCEPT ![c].pc = "mount"]
  /\ UNCHANGED <<app, app0, rpcVars, requestVars, authVars, currentVPath, errorPages, head>>

\* mutant: the unmount is made on every render
UnmountAlways(c) ==
  /\ calls[c].pc = "unmount"
  /\ mountNode' = Empty
  /\ calls' = Step(c, "mount", "unmount")
  /\ UNCHANGED <<app, app0, rpcVars, requestVars, authVars, currentVPath, errorPages, head>>

\* if (vpath != prevVPath) ReactDOM.unmountComponentAtNode(...)
Unmount(c) ==
  /\ calls[c].pc = "unmount"
  /\ IF calls[c].vpath # calls[c].prevVPath
       THEN /\ mountNode' = Empty
            /\ calls' = Step(c, "mount", "unmount")
       ELSE /\ mountNode' = mountNode
            /\ calls' = [calls EXCEPT ![c].pc = "mount"]
  /\ UNCHANGED <<app, app0, rpcVars, requestVars, authVars, currentVPath, errorPages, head>>

\* unmountComponentAtNode throws, the tree stays
UnmountThrows(c) ==
  /\ calls[c].pc = "unmount"
  /\ calls[c].vpath # calls[c].prevVPath
  /\ calls' = Throw(c, "UnmountError")
  /\ UNCHANGED <<app, app0, rpcVars, requestVars, authVars, currentVPath, errorPages,
                 head, mountNode>>

\* React.createElement(view, attrs); ReactDOM.render(el, node)
Mount(c) ==
  /\ calls[c].pc = "mount"
  /\ mountNode' = [vpath |-> calls[c].view, attrs |-> calls[c].attrs]
  /\ calls' = Step(c, "returned", "mount")
  /\ UNCHANGED <<app, app0, rpcVars, requestVars, authVars, currentVPath, errorPages, head>>

\* ReactDOM.render throws; the node keeps its tree or is left empty
MountThrows(c, keepsTree) ==
  /\ calls[c].pc = "mount"
  /\ mountNode' = IF keepsTree THEN mountNode ELSE Empty
  /\ calls' = Throw(c, "RenderError")
  /\ UNCHANGED <<app, app0, rpcVars, requestVars, authVars, currentVPath, errorPages, head>>

\* the awaited load fulfilled: render returns
RenderReturns(c) ==
  /\ calls[c].pc = "returned"
  /\ calls' = [calls EXCEPT ![c].pc = "resolved"]
  /\ UNCHANGED <<app, app0, rpcVars, requestVars, authVars, currentVPath, errorPages,
                 head, mountNode>>

\* this._browser.renderUnhandledErrorPage(err)
RenderUnhandledErrorPage(c, err) == Append(errorPages, [by |-> c, err |-> err])

\* mutant: the catch block swallows the error
CatchSwallows(c) ==
  /\ calls[c].pc = "rejected"
  /\ calls' = [calls EXCEPT ![c].pc = "resolved"]
  /\ UNCHANGED <<app, app0, rpcVars, requestVars, authVars, currentVPath, errorPages,
                 head, mountNode>>

\* catch (err) { this._browser.renderUnhandledErrorPage(err) }
Catch(c) ==
  /\ calls[c].pc = "rejected"
  /\ errorPages' = RenderUnhandledErrorPage(c, calls[c].err)
  /\ calls' = Step(c, "resolved", "errorPage")
  /\ UNCHANGED <<app, app0, rpcVars, requestVars, authVars, currentVPath, head, mountNode>>


----------------------------------------------------------------------------
(* Service.authorize                                                       *)

Services == {"svc1", "svc2"}

\* Service.session, set by the constructor
SessionOf(svc) == IF svc = "svc1" THEN "session1" ELSE "session2"

CallbackErrors == {"E1", "E2"}

\* new NotAuthorizedError()
NotAuthorized == "NotAuthorizedError"

\* the argument of authorize: a boolean, or a callback and how it behaves
\* when called: it returns a boolean or a promise, or it throws
Predicates ==
  [kind : {"boolean"}, value : BOOLEAN]
  \cup [kind : {"callback"}, how : {"returns", "resolves"}, value : BOOLEAN]
  \cup [kind : {"callback"}, how : {"throws", "rejects"}, err : CallbackErrors]

IdleAuth ==
  [pc |-> "idle", svc |-> "", pred |-> [kind |-> "boolean", value |-> FALSE],
   isAuthorized |-> FALSE, err |-> ""]

\* if (!isAuthorized) throw new NotAuthorizedError()
Gate(a, isAuthorized) ==
  IF ~isAuthorized
    THEN [a EXCEPT !.pc = "rejected", !.isAuthorized = isAuthorized,
                   !.err = NotAuthorized]
    ELSE [a EXCEPT !.pc = "resolved", !.isAuthorized = isAuthorized]

\* callback.call(this, this.session)
CallbackCall(i, svc) ==
  Append(invocations, [by |-> i, receiver |-> svc, session |-> SessionOf(svc)])

\* authorize(callback) up to its first suspension, or to its end
Authorize(i, svc, pred) ==
  LET a == [IdleAuth EXCEPT !.svc = svc, !.pred = pred] IN
  /\ auths[i].pc = "idle"
  /\ \A j \in Auths : j < i => auths[j].pc # "idle"
  /\ IF pred.kind = "boolean"
       THEN /\ auths' = [auths EXCEPT ![i] = Gate(a, pred.value)]
            /\ invocations' = invocations
       ELSE /\ invocations' = CallbackCall(i, svc)
            /\ auths' = [auths EXCEPT ![i] =
                 IF pred.how = "throws"
                   THEN [a EXCEPT !.pc = "rejected", !.err = pred.err]
                   ELSE [a EXCEPT !.pc = "await"]]
  /\ UNCHANGED <<app, app0, rpcVars, requestVars, renderVars>>

\* mutant: the callback's result is not awaited, a promise is truthy
AwaitMissing(i) ==
  /\ auths[i].pc = "await"
  /\ auths' = [auths EXCEPT ![i] =
       IF auths[i].pred.how = "returns"
         THEN Gate(auths[i], auths[i].pred.value)
         ELSE Gate(auths[i], TRUE)]
  /\ UNCHANGED <<app, app0, rpcVars, requestVars, renderVars, invocations>>

\* mutant: a rejected callback counts as not authorized
AwaitCatches(i) ==
  /\ auths[i].pc = "await"
  /\ auths' = [auths EXCEPT ![i] =
       IF auths[i].pred.how = "rejects"
         THEN Gate(auths[i], FALSE)
         ELSE Gate(auths[i], auths[i].pred.value)]
  /\ UNCHANGED <<app, app0, rpcVars, requestVars, renderVars, invocations>>

\* isAuthorized = await ...: the awaited value settles and authorize resumes
AwaitSettles(i) ==
  /\ auths[i].pc = "await"
  /\ auths' = [auths EXCEPT ![i] =
       IF auths[i].pred.how = "rejects"
         THEN [auths[i] EXCEPT !.pc = "rejected", !.err = auths[i].pred.err]
         ELSE Gate(auths[i], auths[i].pred.value)]
  /\ UNCHANGED <<app, app0, rpcVars, requestVars, renderVars, invocations>>

----------------------------------------------------------------------------
(* BrowserRequest.call                                                     *)

Methods == {"users.get", "users.save"}

\* the positional arguments
ArgLists == {<<>>, <<1>>, <<1, 2>>, <<2, 1>>}

\* a promise: pending, or settled with a value or with an error
Pending == [state |-> "pending"]
Resolved(value) == [state |-> "resolved", value |-> value]
Rejected(err) == [state |-> "rejected", err |-> err]

\* how the remote procedure ends
RemoteOutcomes == {Resolved("r1"), Resolved("r2"), Rejected("RemoteCallError")}

\* method, args: history, what the caller passed; promise: the promise
\* Browser.call returned; result: the promise call returned
IdleRpc ==
  [pc |-> "idle", method |-> "", args |-> <<>>, promise |-> Pending,
   result |-> Pending]

\* this._browser.call(method, ...args): the controller receives the call
BrowserCall(k, method, args) ==
  Append(remote, [by |-> k, method |-> method, args |-> args])

\* mutant: a failure of the remote side resolves to undefined
ReturnedOrDefault(promise) ==
  IF promise.state = "rejected" THEN Resolved("undefined") ELSE promise

\* return this._browser.call(...): the controller's promise itself
Returned(promise) == promise

\* call(method, ...args)
Call(k, method, args) ==
  /\ rpcs[k].pc = "idle"
  /\ \A j \in Rpcs : j < k => rpcs[j].pc # "idle"
  /\ remote' = BrowserCall(k, method, args)
  /\ rpcs' = [rpcs EXCEPT ![k] = [pc |-> "called", method |-> method,
                                  args |-> args, promise |-> Pending,
                                  result |-> Returned(Pending)]]
  /\ UNCHANGED <<app, app0, requestVars, renderVars, authVars>>

\* the remote procedure ends and the controller's promise settles
RemoteSettles(k, outcome) ==
  /\ rpcs[k].pc = "called"
  /\ rpcs' = [rpcs EXCEPT ![k].pc = "settled", ![k].promise = outcome,
                          ![k].result = Returned(outcome)]
  /\ UNCHANGED <<app, app0, requestVars, renderVars, authVars, remote>>

----------------------------------------------------------------------------
(* Specifications                                                          *)

\* the state after the constructors ran
Init ==
  /\ app \in AppConfigs
  /\ app0 = app
  /\ _title = ""
  /\ _description = ""
  /\ _meta = <<>>
  /\ ret = [op |-> "new"]
  /\ supplied = [title |-> NoArg, description |-> NoArg]
  /\ lastTag = [k \in (Names \cup HttpEquivs) \ {""} |-> <<>>]
  /\ currentVPath = Undefined
  /\ errorPages = <<>>
  /\ head \in InitHeads
  /\ mountNode = Empty
  /\ calls = [c \in Calls |-> IdleCall]
  /\ auths = [i \in Auths |-> IdleAuth]
  /\ invocations = <<>>
  /\ rpcs = [k \in Rpcs |-> IdleRpc]
  /\ remote = <<>>

OptionalArgs(values) == {NoArg} \cup { <<v>> : v \in values }

\* calls on one BrowserRequest: title, description, meta, getMeta
NextRequest ==
  \/ \E arg \in OptionalArgs(TitleValues) : Title(arg)
  \/ \E arg \in OptionalArgs(DescriptionValues) : Description(arg)
  \/ \E value \in MetaTags : Meta(value)
  \/ GetMeta

SpecRequest == Init /\ [][NextRequest]_vars

\* render calls made one after the other
Next ==
  \/ \E c \in Calls, vpath \in VPaths, attrs \in Attrs :
       Sequential(c) /\ Render(c, vpath, attrs)
  \/ \E c \in Calls :
       \/ LoadFails(c)
       \/ LoadCallback(c)
       \/ SetTitle(c)
       \/ SetMeta(c)
       \/ SyncThrows(c)
       \/ GetCurrentVPath(c)
       \/ SetCurrentVPath(c)
       \/ \E hasDefault \in BOOLEAN : Require(c, hasDefault)
       \/ RequireThrows(c)
       \/ CheckView(c)
       \/ Unmount(c)
       \/ UnmountThrows(c)
       \/ Mount(c)
       \/ \E keepsTree \in BOOLEAN : MountThrows(c, keepsTree)
       \/ RenderReturns(c)
       \/ Catch(c)

Spec == Init /\ [][Next]_vars

\* what follows the call of render: the loader, the callback, the catch
Lifecycle(c) ==
  \/ LoadFails(c)
  \/ LoadCallback(c)
  \/ SetTitle(c)
  \/ SetMeta(c)
  \/ SyncThrows(c)
  \/ GetCurrentVPath(c)
  \/ SetCurrentVPath(c)
  \/ \E hasDefault \in BOOLEAN : Require(c, hasDefault)
  \/ RequireThrows(c)
  \/ CheckView(c)
  \/ Unmount(c)
  \/ UnmountThrows(c)
  \/ Mount(c)
  \/ \E keepsTree \in BOOLEAN : MountThrows(c, keepsTree)
  \/ RenderReturns(c)
  \/ Catch(c)

\* the arguments of the racing calls: the same view with other attrs, and
\* another view
RaceInputs == {<<"A", "p">>, <<"A", "q">>, <<"B", "p">>}

\* render calls made while earlier ones are still awaiting the loader
NextRace ==
  \/ \E c \in Calls, input \in RaceInputs : Render(c, input[1], input[2])
  \/ \E c \in Calls : Lifecycle(c)

InitRace == Init /\ app.meta = <<>> /\ Len(head) = 1

SpecRace == InitRace /\ [][NextRace]_vars

\* longer runs of render calls made one after the other, on one document
RepeatCalls == 1..MaxRepeat

InitRepeat ==
  /\ app \in AppConfigs /\ app.meta = <<>>
  /\ app0 = app
  /\ _title = ""
  /\ _description = ""
  /\ _meta = <<>>
  /\ ret = [op |-> "new"]
  /\ supplied = [title |-> NoArg, description |-> NoArg]
  /\ lastTag = [k \in (Names \cup HttpEquivs) \ {""} |-> <<>>]
  /\ currentVPath = Undefined
  /\ errorPages = <<>>
  /\ head \in InitHeads /\ Len(head) = 1
  /\ mountNode = Empty
  /\ calls = [c \in RepeatCalls |-> IdleCall]
  /\ auths = [i \in Auths |-> IdleAuth]
  /\ invocations = <<>>
  /\ rpcs = [k \in Rpcs |-> IdleRpc]
  /\ remote = <<>>

NextRepeat ==
  \/ \E c \in RepeatCalls, vpath \in VPaths, attrs \in Attrs :
       Sequential(c) /\ Render(c, vpath, attrs)
  \/ \E c \in RepeatCalls : Lifecycle(c)

SpecRepeat == InitRepeat /\ [][NextRepeat]_vars

\* remote procedure calls, several in flight
NextRpc ==
  \/ \E k \in Rpcs, method \in Methods, args \in ArgLists : Call(k, method, args)
  \/ \E k \in Rpcs, outcome \in RemoteOutcomes : RemoteSettles(k, outcome)

SpecCall == InitRace /\ [][NextRpc]_vars

\* authorize calls, suspended ones interleaving
NextAuth ==
  \/ \E i \in Auths, svc \in Services, pred \in Predicates : Authorize(i, svc, pred)
  \/ \E i \in Auths : AwaitSettles(i)

InitAuth == Init /\ app.meta = <<>> /\ Len(head) = 1

SpecAuth == InitAuth /\ [][NextAuth]_vars

----------------------------------------------------------------------------
(* Properties of render                                                    *)

Occurs(events, e) == \E i \in 1..Len(events) : events[i] = e

\* every e1 in the sequence comes before every e2
Precedes(events, e1, e2) ==
  \A i, j \in 1..Len(events) : events[i] = e1 /\ events[j] = e2 => i < j

\* the call has run to its end and no later call has started
Latest(c) ==
  /\ calls[c].pc = "resolved"
  /\ \A d \in Calls : d > c => calls[d].pc = "idle"

Succeeded(c) == calls[c].pc = "resolved" /\ calls[c].err = ""

ResolutionErrors == {"LoadError", "RequireError", "NoDefaultError"}

\* C1: a render whose module resolution failed (the loader or require threw,
\* or the module has no default export) leaves the current-view marker at
\* the value it had before the render.
C1_MarkerKeptWhenResolutionFails ==
  \A c \in Calls :
    Latest(c) /\ calls[c].err \in ResolutionErrors
      => currentVPath = calls[c].before

\* C2: within one render the metadata/title sync precedes the unmount, the
\* unmount precedes the mount of the resolved module, and the update of the
\* current-view marker is the last step, after the mount.
C2_FixedStepOrder ==
  \A c \in Calls :
    LET ev == calls[c].events IN
    /\ Precedes(ev, "setTitle", "unmount")
    /\ Precedes(ev, "setMeta", "unmount")
    /\ Precedes(ev, "unmount", "mount")
    /\ Precedes(ev, "mount", "setCurrentVPath")
    /\ Occurs(ev, "setCurrentVPath") => Occurs(ev, "mount")

\* two render calls made one right after the other
Successive(c, d) == c \in Calls /\ d \in Calls /\ d = c + 1

\* C3: after a successful render(vpathA) followed by a successful
\* render(vpathB), vpathA # vpathB, the tree of vpathA was unmounted before
\* the component of vpathB was mounted, and the marker is vpathB.
C3_UnmountBeforeMountOfOtherView ==
  \A c, d \in Calls :
    Successive(c, d) /\ Succeeded(c) /\ calls[d].vpath # calls[c].vpath
      => /\ calls[d].pc = "mount"
              => Occurs(calls[d].events, "unmount") /\ mountNode = Empty
         /\ Latest(d) /\ Succeeded(d)
              => /\ Occurs(calls[d].events, "unmount")
                 /\ Precedes(calls[d].events, "unmount", "mount")
                 /\ mountNode.vpath = calls[d].vpath
                 /\ currentVPath = calls[d].vpath

C3_Witness ==
  \E c, d \in Calls :
    /\ Successive(c, d) /\ Succeeded(c) /\ Succeeded(d) /\ Latest(d)
    /\ calls[c].vpath = "A" /\ calls[d].vpath = "B"
    /\ mountNode.vpath = "B"

\* C4: two successive renders of the same vpath make two mounts and the
\* mount node is not unmounted between them, whatever the attrs.
C4_RerenderDoesNotUnmount ==
  \A c, d \in Calls :
    Successive(c, d) /\ Succeeded(c) /\ calls[d].vpath = calls[c].vpath
      => /\ ~Occurs(calls[d].events, "unmount")
         /\ calls[d].pc \in CallbackPcs
              => mountNode = [vpath |-> calls[c].vpath, attrs |-> calls[c].attrs]
         /\ Succeeded(d)
              => Occurs(calls[c].events, "mount") /\ Occurs(calls[d].events, "mount")

C4_Witness ==
  \E c, d \in Calls :
    /\ Successive(c, d) /\ Succeeded(c) /\ Succeeded(d)
    /\ calls[c].vpath = calls[d].vpath
    /\ calls[c].attrs # calls[d].attrs
    /\ mountNode = [vpath |-> calls[d].vpath, attrs |-> calls[d].attrs]

ErrorPagesOf(c) == SelectSeq(errorPages, LAMBDA p : p.by = c)

\* C5: a failure raised anywhere in the render sequence is absorbed: the
\* render ends resolved, renderUnhandledErrorPage was called exactly once for
\* it, with the raised error; a render that did not fail never calls it.
C5_FailureAbsorbedIntoOneErrorPage ==
  \A c \in Calls :
    /\ calls[c].pc = "resolved" /\ calls[c].err # ""
         => ErrorPagesOf(c) = <<[by |-> c, err |-> calls[c].err]>>
    /\ ~(calls[c].pc = "resolved" /\ calls[c].err # "")
         => ErrorPagesOf(c) = <<>>

C5_Witness ==
  \E c \in Calls :
    /\ calls[c].pc = "resolved"
    /\ calls[c].err = "RenderError"
    /\ ErrorPagesOf(c) = <<[by |-> c, err |-> "RenderError"]>>

----------------------------------------------------------------------------
(* Properties of authorize                                                 *)

InvocationsOf(i) == SelectSeq(invocations, LAMBDA v : v.by = i)

AuthSettled(i) == auths[i].pc \in {"resolved", "rejected"}

YieldsBoolean(pred) ==
  pred.kind = "boolean" \/ pred.how \in {"returns", "resolves"}

\* C6: for a boolean literal or a callback giving a boolean (directly or
\* asynchronously), authorize resolves iff the boolean is true and fails with
\* NotAuthorized otherwise; a callback is called exactly once, with the
\* Service as receiver and its Session as argument; a literal calls nothing.
C6_AuthorizeFollowsBoolean ==
  \A i \in Auths :
    LET a == auths[i] IN
    a.pc # "idle" =>
      /\ AuthSettled(i) /\ YieldsBoolean(a.pred)
           => /\ a.pc = "resolved" <=> a.pred.value
              /\ a.pc = "rejected" => a.err = NotAuthorized
      /\ a.pred.kind = "callback"
           => InvocationsOf(i) = <<[by |-> i, receiver |-> a.svc,
                                    session |-> SessionOf(a.svc)]>>
      /\ a.pred.kind = "boolean" => InvocationsOf(i) = <<>>

C6_Witness ==
  \E i, j \in Auths :
    /\ auths[i].pc = "rejected" /\ auths[i].pred.kind = "callback"
    /\ auths[i].pred.how = "resolves" /\ auths[i].svc = "svc2"
    /\ auths[j].pc = "resolved" /\ auths[j].pred.kind = "boolean"

\* C7: when the callback throws or rejects with e, authorize fails with e,
\* not with NotAuthorized; NotAuthorized comes only from a boolean false.
C7_CallbackFailurePropagates ==
  \A i \in Auths :
    LET a == auths[i] IN
    /\ AuthSettled(i) /\ ~YieldsBoolean(a.pred)
         => a.pc = "rejected" /\ a.err = a.pred.err /\ a.err # NotAuthorized
    /\ a.pc = "rejected" /\ a.err = NotAuthorized
         => YieldsBoolean(a.pred) /\ ~a.pred.value

C7_Witness ==
  \E i, j \in Auths :
    /\ auths[i].pc = "rejected" /\ auths[i].pred.kind = "callback"
    /\ auths[i].pred.how = "rejects" /\ auths[i].err = "E2"
    /\ auths[j].pc = "rejected" /\ auths[j].pred.kind = "callback"
    /\ auths[j].pred.how = "throws" /\ auths[j].err = "E1"

----------------------------------------------------------------------------
(* Properties of title, description, meta and getMeta                      *)

\* the most recently supplied value when it is a non-empty string, else the
\* Application's default
Expected(args, default) ==
  IF args # NoArg /\ args[1] # "" THEN args[1] ELSE default

\* C8: title() returns the most recently supplied value when that is a
\* non-empty string and the Application's default title otherwise; calling
\* it without argument leaves the override alone; the same for description;
\* neither field changes what the other returns.
C8_OverrideShadowsDefaultWhenNonEmpty ==
  /\ ret.op = "title" => ret.value = Expected(supplied.title, app0.title)
  /\ ret.op = "description"
       => ret.value = Expected(supplied.description, app0.description)
  /\ TitleValue(_title, app) = Expected(supplied.title, app0.title)
  /\ DescriptionValue(_description, app)
       = Expected(supplied.description, app0.description)
  /\ _title = IF supplied.title = NoArg THEN "" ELSE supplied.title[1]
  /\ _description
       = IF supplied.description = NoArg THEN "" ELSE supplied.description[1]

C8_Witness ==
  /\ ret = [op |-> "title", value |-> app.title]
  /\ supplied.title = <<"">>
  /\ supplied.description = <<"D">>

ExactlyOneIdentifier(value) == (value.name # "") # (value.httpEquiv # "")

\* C9: meta(tag) accepts the tag iff exactly one of name and httpEquiv is
\* set; a tag with neither or with both is rejected and leaves the metadata
\* unchanged; an accepted tag is stored under its identifier and the same
\* Request is returned.
C9_MetaAcceptsNameXorHttpEquiv ==
  ret.op = "meta" =>
    /\ ret.value = "this" <=> ExactlyOneIdentifier(ret.tag)
    /\ ret.value = "this"
         => /\ Has(_meta, Identifier(ret.tag))
            /\ Lookup(_meta, Identifier(ret.tag)) = ret.tag

Registered == { k \in DOMAIN lastTag : lastTag[k] # <<>> }

\* C10: getMeta() returns a mapping over the Application's keys and the keys
\* registered on the request; a registered key has the tag of the last meta
\* call for it, any other key the Application's tag; getMeta() changes
\* neither the Application's nor the request's metadata.
C10_GetMetaIsOverridingUnion ==
  /\ ret.op = "getMeta"
       => /\ Keys(ret.value) = Keys(app0.meta) \cup Registered
          /\ Len(ret.value) = Cardinality(Keys(ret.value))
          /\ \A k \in Registered : Lookup(ret.value, k) = lastTag[k][1]
          /\ \A k \in Keys(app0.meta) \ Registered :
               Lookup(ret.value, k) = Lookup(app0.meta, k)
  /\ app = app0
  /\ Keys(_meta) = Registered
  /\ \A k \in Registered : Lookup(_meta, k) = lastTag[k][1]

C10_Witness ==
  /\ ret.op = "getMeta"
  /\ Keys(app0.meta) = {"description", "b"}
  /\ Registered = {"a", "b"}
  /\ Lookup(ret.value, "b") = Tag("", "b", "2")
  /\ Lookup(ret.value, "description") = Tag("description", "", "0")

----------------------------------------------------------------------------
(* Properties of concurrent render calls                                   *)

\* the callback of c was the last one the loader ran
RanLast(c) ==
  /\ calls[c].turn > 0
  /\ \A d \in DOMAIN calls : calls[d].turn <= calls[c].turn

\* C11: of two render calls in progress at once, whatever the order in which
\* the loader runs their callbacks, neither is aborted (each makes its
\* mount), and once both have succeeded the mounted tree and the current-view
\* marker are those of the call whose callback ran last.
C11_LastCallbackWins ==
  \A c, d \in Calls :
    c # d /\ Succeeded(c) /\ Succeeded(d) /\ RanLast(d)
      => /\ Occurs(calls[c].events, "mount")
         /\ Occurs(calls[d].events, "mount")
         /\ mountNode = [vpath |-> calls[d].vpath, attrs |-> calls[d].attrs]
         /\ currentVPath = calls[d].vpath

\* the second call was made while the first awaited the loader, and the
\* loader ran the second callback first
C11_Witness ==
  /\ Succeeded(1) /\ Succeeded(2)
  /\ calls[1].turn = 2 /\ calls[2].turn = 1
  /\ calls[1].vpath = "A" /\ calls[2].vpath = "B"
  /\ mountNode.vpath = "A" /\ currentVPath = "A"

----------------------------------------------------------------------------
(* Properties of call                                                      *)

RemoteOf(k) == SelectSeq(remote, LAMBDA r : r.by = k)

\* C12: call(method, ...args) hands the method name and the arguments,
\* unchanged and in order, to the navigation controller exactly once, and
\* its promise settles as the controller's: resolved with the remote result,
\* or rejected with the remote failure, never resolved with a default.
C12_CallForwardsAndSettlesAsRemote ==
  \A k \in Rpcs :
    /\ rpcs[k].pc = "idle" => RemoteOf(k) = <<>>
    /\ rpcs[k].pc # "idle"
         => /\ RemoteOf(k) = <<[by |-> k, method |-> rpcs[k].method,
                                args |-> rpcs[k].args]>>
            /\ rpcs[k].result = rpcs[k].promise
            /\ rpcs[k].pc = "called" <=> rpcs[k].result.state = "pending"

C12_Witness ==
  \E j, k \in Rpcs :
    /\ rpcs[j].pc = "settled" /\ rpcs[j].args = <<2, 1>>
    /\ rpcs[j].result = Rejected("RemoteCallError")
    /\ rpcs[k].pc = "settled" /\ rpcs[k].args = <<1, 2>>
    /\ rpcs[k].result = Resolved("r2")

----------------------------------------------------------------------------
(* Properties of a render whose module has no default export               *)

TreeOf(c) == [vpath |-> calls[c].vpath, attrs |-> calls[c].attrs]

\* no call was made after c
NoLaterCall(c) == \A d \in DOMAIN calls : d > c => calls[d].pc = "idle"

\* C13: when the module resolved for vpath has no default view component,
\* render makes neither an unmount of the previous tree nor a mount, and the
\* error is handed to renderUnhandledErrorPage exactly once.
C13_NoDefaultKeepsTreeAndReportsOnce ==
  \A c \in Calls :
    calls[c].err = "NoDefaultError"
      => /\ ~Occurs(calls[c].events, "unmount")
         /\ ~Occurs(calls[c].events, "mount")
         /\ \A b \in Calls :
              Successive(b, c) /\ Succeeded(b) /\ NoLaterCall(c)
                => mountNode = TreeOf(b)
         /\ calls[c].pc = "rejected" => ErrorPagesOf(c) = <<>>
         /\ calls[c].pc = "resolved"
              => ErrorPagesOf(c) = <<[by |-> c, err |-> "NoDefaultError"]>>

C13_Witness ==
  \E b, c \in Calls :
    /\ Successive(b, c) /\ Succeeded(b)
    /\ calls[b].vpath = "A" /\ calls[c].vpath = "B"
    /\ calls[c].pc = "resolved" /\ calls[c].err = "NoDefaultError"
    /\ mountNode = TreeOf(b)
    /\ ErrorPagesOf(c) = <<[by |-> c, err |-> "NoDefaultError"]>>

----------------------------------------------------------------------------
(* Properties of the mount node across renders, failed ones included       *)

\* the step of call c that mounts its component
Mounts(c) == calls[c].pc = "mount" /\ calls'[c].pc = "returned"

\* C14: across any sequence of render calls, failed ones included, a
\* component of vpath X is never mounted while the mount node holds the tree
\* of another vpath Y: the node is empty or holds a tree of X when X mounts.
C14_NeverMountsOverOtherView ==
  [][\A c \in DOMAIN calls :
       Mounts(c) => mountNode.vpath \in {"", calls[c].vpath}]_vars

----------------------------------------------------------------------------
(* Properties of the document head after the metadata sync                 *)

\* setTitle() and setMeta() of call c have just run
Synced(c) == calls[c].pc = "getCurrentVPath"

TitleElements == { i \in 1..Len(head) : IsTitle(head[i]) }

\* the meta elements the sync wrote: those not marked data-keep
WrittenMeta == { i \in 1..Len(head) : IsRemovableMeta(head[i]) }

DescriptionElements ==
  { i \in WrittenMeta : head[i].attr = "name" /\ head[i].key = "description" }

\* C15: after the metadata sync of a render the head has exactly one title
\* element, with the text of title(), and among the meta elements the sync
\* wrote at most one per identifier, in particular exactly one description
\* tag, with the content of description().
C15_HeadHasOneTitleAndOneTagPerIdentifier ==
  \A c \in Calls :
    Synced(c)
      => /\ Cardinality(TitleElements) = 1
         /\ \A i \in TitleElements : head[i].content = TitleValue(_title, app)
         /\ \A i, j \in WrittenMeta :
              head[i].attr = head[j].attr /\ head[i].key = head[j].key => i = j
         /\ Cardinality(DescriptionElements) = 1
         /\ \A i \in DescriptionElements :
              head[i].content = DescriptionValue(_description, app)

====
